---- MODULE Spec2Model ----
(***************************************************************************)
(* The MultiSigWallet contract (the "Authoritative Ledger") as a state     *)
(* machine.  One action per external entry point of the contract; the      *)
(* external call made by executeTransaction is a call frame on `stack`,    *)
(* during which the callee may re-enter the wallet before it returns.      *)
(* A revert restores the state saved when the reverted call was entered.   *)
(* Beside the contract: its constructor on arbitrary arguments (SpecCtor), *)
(* the reducer of the MultiSigWallet context folding the wallet's events   *)
(* (SpecProj) or one log of any kind (SpecFold), two contexts folding the  *)
(* same logs (SpecReplay), the polling subscriptions of api/web3.ts        *)
(* (SpecPoll) and the Updater of the Web3 context on them (SpecWeb).       *)
(* Beside the wallet: the FrontRunMe contract, whose withdraw makes an     *)
(* external call with the whole balance (SpecFrontRun).                    *)
(***************************************************************************)
EXTENDS Integers, Sequences, FiniteSets, TLC

\* ---------------------------------------------------------------- bounds
MaxTx == 2          \* transactions submitted in one run
MaxLogs == 2        \* events one top-level call emits, nested calls included
MaxBalance == 1     \* wallet balance the deposits may build up
MaxOwners == 3      \* length of the owner list a constructor call passes
MaxPending == 2     \* provider queries of one subscription awaiting their answer
MaxCalls == 3       \* invocations of the callback of one subscription
MaxFunds == 1       \* balance the deposits into FrontRunMe may build up
MaxDepth == 1       \* withdraw calls of FrontRunMe nested in one another

\* ---------------------------------------------------------------- inputs
ZeroAddress == "0x0"
Address == {"A", "B", "C"}
AnyAddress == Address \cup {ZeroAddress}
Amounts == {0, 1}
TxIndices == 0..MaxTx

\* (_to, _value, _data) arguments of submitTransaction: a call without value
\* to an outsider, and a payment to an address that is also an owner
SubmitInputs ==
    { [to |-> "C", value |-> 0, data |-> "0x0123"],
      [to |-> "B", value |-> 1, data |-> "0x"] }

\* constructor arguments a deployment is attempted with; the wallet exists
\* for those the constructor accepts
Deployments ==
    { [owners |-> <<"A", "B">>, required |-> 1],
      [owners |-> <<"A", "B">>, required |-> 2],
      [owners |-> <<"A", "B">>, required |-> 3],
      [owners |-> <<"A", "A">>, required |-> 1] }

\* every constructor call with at most MaxOwners owners
OwnerLists == UNION { [1..n -> AnyAddress] : n \in 0..MaxOwners }
Thresholds == 0..(MaxOwners + 1)

\* ----------------------------------------------------------------- state
VARIABLES
    ctor,                     \* the constructor call: its arguments and outcome
    owners,                   \* address[] owners
    isOwner,                  \* mapping(address => bool) isOwner
    numConfirmationsRequired, \* uint numConfirmationsRequired
    transactions,             \* Transaction[] transactions
    balance,                  \* address(this).balance
    logs,                     \* the events of the current top-level call, in order
    sent,                     \* sent[i+1]: transfers of transaction i in effect
    stack,                    \* executeTransaction calls waiting for their callee
    ret,                      \* what the call that completed last returned
    queue,                    \* logs of committed events the subscriber has not got
    proj,                     \* state of the MultiSigWallet context (the reducer's)
    account,                  \* state.account of the Web3 context: the viewer
    poll,                     \* the subscriptions of api/web3.ts, one of each kind
    twin,                     \* a second context of the same viewer and its logs
    web3,                     \* state.web3 of the Web3 context
    netId,                    \* state.netId of the Web3 context
    provider,                 \* the identity provider: its account and network
    console,                  \* what the last callback of the Web3 Updater logged
    addressToSecret,          \* mapping(address => bytes32) of FrontRunMe
    frontRunBalance,          \* address(this).balance of FrontRunMe
    depositors,               \* the addresses that have called deposit
    withdrawing,              \* withdraw calls waiting for their external call
    answer                    \* what the last call of FrontRunMe returned

vars == <<ctor, owners, isOwner, numConfirmationsRequired, transactions, balance,
          logs, sent, stack, ret, queue, proj, account, poll, twin, web3, netId,
          provider, console, addressToSecret, frontRunBalance, depositors,
          withdrawing, answer>>

\* the FrontRunMe contract on the chain
frontRunMe == <<addressToSecret, frontRunBalance, depositors, withdrawing, answer>>

\* the wallet on the chain
chain == <<ctor, owners, isOwner, numConfirmationsRequired, transactions,
           balance, logs, sent, stack, ret>>

\* the Web3 context but its account, the provider and the browser console
page == <<web3, netId, provider, console>>

OK == "ok"
Null == "null"
Undefined == "undefined"

\* the part of the chain state a revert rolls back
World == [transactions |-> transactions, balance |-> balance,
          logs |-> logs, sent |-> sent]

\* ----------------------------------------------------------- constructor
\* the constructor call has not run; isOwner before the first assignment
Pending == "pending"
NoOwner == [a \in AnyAddress |-> FALSE]

\* require(!isOwner[owner], "owner not unique")
\* (variant: the require left out)
ownerUnique_Absent(isOwnerAcc, owner) == TRUE
ownerUnique(isOwnerAcc, owner) == ~isOwnerAcc[owner]

\* require(_numConfirmationsRequired > 0 && ... <= _owners.length, ...)
\* (variant: the upper limit left out)
requiredValid_NoLimit(n, length) == n > 0
requiredValid(n, length) == n > 0 /\ n <= length

RECURSIVE constructorLoop(_, _, _, _)
constructorLoop(_owners, i, isOwnerAcc, ownersAcc) ==
    IF i > Len(_owners) THEN [err |-> OK, isOwner |-> isOwnerAcc, owners |-> ownersAcc]
    ELSE LET owner == _owners[i] IN
         IF owner = ZeroAddress THEN [err |-> "invalid owner"]
         ELSE IF ~ownerUnique(isOwnerAcc, owner) THEN [err |-> "owner not unique"]
         ELSE constructorLoop(_owners, i + 1,
                              [isOwnerAcc EXCEPT ![owner] = TRUE],
                              Append(ownersAcc, owner))

constructor(_owners, _numConfirmationsRequired) ==
    IF ~(Len(_owners) > 0) THEN [err |-> "owners required"]
    ELSE IF ~requiredValid(_numConfirmationsRequired, Len(_owners))
         THEN [err |-> "invalid number of required confirmations"]
    ELSE LET r == constructorLoop(_owners, 1, NoOwner, <<>>) IN
         IF r.err # OK THEN [err |-> r.err]
         ELSE [err |-> OK, isOwner |-> r.isOwner, owners |-> r.owners,
               numConfirmationsRequired |-> _numConfirmationsRequired]

\* the chain after a successful deployment
Deployed ==
    \E d \in Deployments :
        LET c == constructor(d.owners, d.required) IN
        /\ c.err = OK
        /\ ctor = [_owners |-> d.owners, _numConfirmationsRequired |-> d.required,
                   err |-> OK]
        /\ owners = c.owners
        /\ isOwner = c.isOwner
        /\ numConfirmationsRequired = c.numConfirmationsRequired
        /\ transactions = <<>>
        /\ balance = 0
        /\ logs = <<>>
        /\ sent = <<>>
        /\ stack = <<>>
        /\ ret = OK

\* const INITIAL_STATE: State (contexts/MultiSigWallet.tsx)
INITIAL_STATE ==
    [address |-> "", balance |-> "0", owners |-> <<>>,
     numConfirmationsRequired |-> 0, transactionCount |-> 0,
     transactions |-> <<>>]

\* subscribeToAccount and subscribeToNetId, before either is called
Kinds == {"account", "netId"}
NoPoll == [k \in Kinds |-> [timer |-> "none", pending |-> 0, calls |-> 0,
                            last |-> "none"]]

\* no second context
NoTwin == [state |-> INITIAL_STATE, queue |-> <<>>]

\* networks a provider can be on
NetIds == {1, 2}

\* the page as it is loaded: const INITIAL_STATE of contexts/Web3.tsx, no
\* subscription, nothing logged; the provider has account a
Loaded(a) ==
    /\ account = ""
    /\ web3 = Null
    /\ netId = 0
    /\ poll = NoPoll
    /\ console = <<>>
    /\ provider = [account |-> a, netId |-> 1]

\* the page after unlockAccount, the account a of the provider in the state
Unlocked(a) ==
    /\ account = a
    /\ web3 = "web3"
    /\ netId = 0
    /\ poll = NoPoll
    /\ console = <<>>
    /\ provider = [account |-> a, netId |-> 1]

\* bytes32 values of FrontRunMe
ZeroSecret == "0x00"   \* the value the mapping holds for a key never written
Secrets == {ZeroSecret, "0x1234"}

\* the contract as it is deployed
NoFrontRunMe ==
    /\ addressToSecret = [a \in Address |-> ZeroSecret]
    /\ frontRunBalance = 0
    /\ depositors = {}
    /\ withdrawing = <<>>
    /\ answer = OK

\* no application is attached to the wallet
NoApp ==
    /\ queue = <<>>
    /\ proj = INITIAL_STATE
    /\ twin = NoTwin
    /\ Loaded(Undefined)

Init == Deployed /\ NoApp /\ NoFrontRunMe

\* ------------------------------------------------------------- modifiers
\* (variants: the modifier left off the function; any address but 0 let in)
onlyOwner_Absent(sender) == TRUE
onlyOwner_NotZero(sender) == sender # ZeroAddress
onlyOwner(sender) == isOwner[sender]

txExists(txs, _txIndex) == _txIndex < Len(txs)

\* (variant: the modifier left off the function)
notExecuted_Absent(txs, _txIndex) == TRUE
notExecuted(txs, _txIndex) == ~txs[_txIndex + 1].executed

\* (variant: the modifier left off the function)
notConfirmed_Absent(txs, _txIndex, sender) == TRUE
notConfirmed(txs, _txIndex, sender) == ~txs[_txIndex + 1].isConfirmed[sender]

\* require(transaction.isConfirmed[msg.sender], "tx not confirmed")
\* (variant: the require left out)
confirmedBySender_Absent(txs, _txIndex, sender) == TRUE
confirmedBySender(txs, _txIndex, sender) == txs[_txIndex + 1].isConfirmed[sender]

\* require(transaction.numConfirmations >= numConfirmationsRequired, ...)
\* (variants: the require left out; > for >=)
enoughConfirmations_Absent(tx) == TRUE
enoughConfirmations_Strict(tx) == tx.numConfirmations > numConfirmationsRequired
enoughConfirmations(tx) == tx.numConfirmations >= numConfirmationsRequired

\* ---------------------------------------------------------------- events
DepositEvent(sender, amount, bal) ==
    [event |-> "Deposit", sender |-> sender, amount |-> amount, balance |-> bal]

SubmitTransactionEvent(owner, txIndex, to, value, data) ==
    [event |-> "SubmitTransaction", owner |-> owner, txIndex |-> txIndex,
     to |-> to, value |-> value, data |-> data]

ConfirmTransactionEvent(owner, txIndex) ==
    [event |-> "ConfirmTransaction", owner |-> owner, txIndex |-> txIndex]

RevokeConfirmationEvent(owner, txIndex) ==
    [event |-> "RevokeConfirmation", owner |-> owner, txIndex |-> txIndex]

ExecuteTransactionEvent(owner, txIndex) ==
    [event |-> "ExecuteTransaction", owner |-> owner, txIndex |-> txIndex]

\* --------------------------------------------------- the entry points
\* Each returns [err, w]: the revert reason (or OK) and the world it leaves.
Revert(w, reason) == [err |-> reason, w |-> w]

\* (variant: the event carrying the balance before the deposit)
fallback_BalanceBefore(w, sender, value) ==
    [err |-> OK,
     w |-> [w EXCEPT !.balance = @ + value,
                     !.logs = Append(@, DepositEvent(sender, value, w.balance))]]
fallback(w, sender, value) ==
    LET bal == w.balance + value IN
    [err |-> OK,
     w |-> [w EXCEPT !.balance = bal,
                     !.logs = Append(@, DepositEvent(sender, value, bal))]]

\* Transaction({to, value, data, executed: false, numConfirmations: 0}); the
\* isConfirmed mapping of a new array element is all false
\* (variant: the submission counted as a confirmation)
newTransaction_Counted(_to, _value, _data) ==
    [to |-> _to, value |-> _value, data |-> _data, executed |-> FALSE,
     isConfirmed |-> [a \in AnyAddress |-> FALSE], numConfirmations |-> 1]
newTransaction(_to, _value, _data) ==
    [to |-> _to, value |-> _value, data |-> _data, executed |-> FALSE,
     isConfirmed |-> [a \in AnyAddress |-> FALSE], numConfirmations |-> 0]

submitTransaction(w, sender, _to, _value, _data) ==
    IF ~onlyOwner(sender) THEN Revert(w, "not owner")
    ELSE LET txIndex == Len(w.transactions)
             tx == newTransaction(_to, _value, _data)
         IN [err |-> OK,
             w |-> [w EXCEPT
                     !.transactions = Append(@, tx),
                     !.sent = Append(@, 0),
                     !.logs = Append(@, SubmitTransactionEvent(
                                  sender, txIndex, _to, _value, _data))]]

\* transaction.isConfirmed[msg.sender] = true; transaction.numConfirmations += 1
confirmBody(transaction, sender) ==
    [transaction EXCEPT !.isConfirmed[sender] = TRUE, !.numConfirmations = @ + 1]

\* (variant: notConfirmed placed before notExecuted)
confirmTransaction_ConfirmedFirst(w, sender, _txIndex) ==
    IF ~onlyOwner(sender) THEN Revert(w, "not owner")
    ELSE IF ~txExists(w.transactions, _txIndex) THEN Revert(w, "tx does not exist")
    ELSE IF ~notConfirmed(w.transactions, _txIndex, sender)
         THEN Revert(w, "tx already confirmed")
    ELSE IF ~notExecuted(w.transactions, _txIndex) THEN Revert(w, "tx already executed")
    ELSE [err |-> OK,
          w |-> [w EXCEPT
                  !.transactions[_txIndex + 1] = confirmBody(@, sender),
                  !.logs = Append(@, ConfirmTransactionEvent(sender, _txIndex))]]
confirmTransaction(w, sender, _txIndex) ==
    IF ~onlyOwner(sender) THEN Revert(w, "not owner")
    ELSE IF ~txExists(w.transactions, _txIndex) THEN Revert(w, "tx does not exist")
    ELSE IF ~notExecuted(w.transactions, _txIndex) THEN Revert(w, "tx already executed")
    ELSE IF ~notConfirmed(w.transactions, _txIndex, sender)
         THEN Revert(w, "tx already confirmed")
    ELSE [err |-> OK,
          w |-> [w EXCEPT
                  !.transactions[_txIndex + 1] = confirmBody(@, sender),
                  !.logs = Append(@, ConfirmTransactionEvent(sender, _txIndex))]]

\* transaction.isConfirmed[msg.sender] = false; transaction.numConfirmations -= 1
\* (variants: the counter not lowered; the flag not cleared)
revokeBody_NoDecrement(transaction, sender) ==
    [transaction EXCEPT !.isConfirmed[sender] = FALSE]
revokeBody_KeepsFlag(transaction, sender) ==
    [transaction EXCEPT !.numConfirmations = @ - 1]
revokeBody(transaction, sender) ==
    [transaction EXCEPT !.isConfirmed[sender] = FALSE, !.numConfirmations = @ - 1]

revokeConfirmation(w, sender, _txIndex) ==
    IF ~onlyOwner(sender) THEN Revert(w, "not owner")
    ELSE IF ~txExists(w.transactions, _txIndex) THEN Revert(w, "tx does not exist")
    ELSE IF ~notExecuted(w.transactions, _txIndex) THEN Revert(w, "tx already executed")
    ELSE IF ~confirmedBySender(w.transactions, _txIndex, sender)
         THEN Revert(w, "tx not confirmed")
    ELSE [err |-> OK,
          w |-> [w EXCEPT
                  !.transactions[_txIndex + 1] = revokeBody(@, sender),
                  !.logs = Append(@, RevokeConfirmationEvent(sender, _txIndex))]]

\* executeTransaction up to its external call: the modifiers, the threshold
\* check and the executed flag.
executeChecks(w, sender, _txIndex) ==
    IF ~onlyOwner(sender) THEN "not owner"
    ELSE IF ~txExists(w.transactions, _txIndex) THEN "tx does not exist"
    ELSE IF ~notExecuted(w.transactions, _txIndex) THEN "tx already executed"
    ELSE IF ~enoughConfirmations(w.transactions[_txIndex + 1])
         THEN "cannot execute tx"
    ELSE OK

\* (variants: the flag not set before the call; the flag set on every record)
setExecuted_Absent(txs, _txIndex) == txs
setExecuted_All(txs, _txIndex) ==
    [k \in 1..Len(txs) |-> [txs[k] EXCEPT !.executed = TRUE]]
setExecuted(txs, _txIndex) == [txs EXCEPT ![_txIndex + 1].executed = TRUE]

\* the value transfer of transaction.to.call.value(transaction.value)(...):
\* the EVM fails the call when the wallet holds less than the value
\* (variant: a call that succeeds without the funds)
canTransfer_Always(w, _txIndex) == TRUE
canTransfer(w, _txIndex) == w.balance >= w.transactions[_txIndex + 1].value

transferOut(w, _txIndex) ==
    [w EXCEPT !.balance = @ - w.transactions[_txIndex + 1].value,
              !.sent[_txIndex + 1] = @ + 1]

\* the reason executeTransaction reverts without its callee having run
executeReject(w, sender, _txIndex) ==
    LET e == executeChecks(w, sender, _txIndex) IN
    IF e # OK THEN e
    ELSE IF ~canTransfer(w, _txIndex) THEN "tx failed"
    ELSE OK

\* the world the callee runs in
executeEnter(w, _txIndex) ==
    transferOut([w EXCEPT !.transactions = setExecuted(@, _txIndex)], _txIndex)

\* after the callee returned: require(success) and the event
\* (variant: a failed call reported without reverting)
executeReturn_NoRevert(saved, w, sender, _txIndex, success) ==
    IF ~success THEN [err |-> "tx failed", w |-> w]
    ELSE [err |-> OK,
          w |-> [w EXCEPT !.logs = Append(@, ExecuteTransactionEvent(sender, _txIndex))]]
\* (variant: the emit left out)
executeReturn_Silent(saved, w, sender, _txIndex, success) ==
    IF ~success THEN Revert(saved, "tx failed")
    ELSE [err |-> OK, w |-> w]
executeReturn(saved, w, sender, _txIndex, success) ==
    IF ~success THEN Revert(saved, "tx failed")
    ELSE [err |-> OK,
          w |-> [w EXCEPT !.logs = Append(@, ExecuteTransactionEvent(sender, _txIndex))]]

\* ------------------------------------------------------ the event stream
\* The numbers the runs put in an event.  web3 hands a uint of an event over
\* as its decimal string; the reducer reads it back with parseInt and toBN.
Uints == 0..(MaxTx + MaxBalance)
toDecimal(n) == ToString(n)
parseInt(s) == CHOOSE n \in Uints : toDecimal(n) = s
toBN(s) == parseInt(s)

\* log.event and log.returnValues of an emitted event
Log(e) ==
    [event |-> e.event,
     returnValues |->
        IF e.event = "Deposit"
        THEN [sender |-> e.sender, amount |-> toDecimal(e.amount),
              balance |-> toDecimal(e.balance)]
        ELSE IF e.event = "SubmitTransaction"
        THEN [owner |-> e.owner, txIndex |-> toDecimal(e.txIndex), to |-> e.to,
              value |-> toDecimal(e.value), data |-> e.data]
        ELSE [owner |-> e.owner, txIndex |-> toDecimal(e.txIndex)]]

Wire(receipt) == [k \in 1..Len(receipt) |-> Log(receipt[k])]

\* ----------------------------------------------------------- the reducer
SET == "SET"
UPDATE_BALANCE == "UPDATE_BALANCE"
ADD_TX == "ADD_TX"
UPDATE_TX == "UPDATE_TX"

Has(data, field) == field \in DOMAIN data

\* case ADD_TX: the record put in front of state.transactions
\* (variants: the index is the count of the mounted context, not the log's;
\* the new record shown as confirmed by the viewer)
addedTx_Confirmed(data) ==
    [txIndex |-> parseInt(data.txIndex), to |-> data.to,
     value |-> toBN(data.value), data |-> data.data, executed |-> FALSE,
     numConfirmations |-> 0, isConfirmedByCurrentAccount |-> TRUE]
addedTx_Counted(data) ==
    [txIndex |-> proj.transactionCount, to |-> data.to,
     value |-> toBN(data.value), data |-> data.data, executed |-> FALSE,
     numConfirmations |-> 0, isConfirmedByCurrentAccount |-> FALSE]
addedTx(data) ==
    [txIndex |-> parseInt(data.txIndex), to |-> data.to,
     value |-> toBN(data.value), data |-> data.data, executed |-> FALSE,
     numConfirmations |-> 0, isConfirmedByCurrentAccount |-> FALSE]

\* case UPDATE_TX: the confirmed branch of the record whose txIndex matches
\* (variant: the count not lowered below 0)
confirmedTx_Clamped(tx, data) ==
    IF data.confirmed
    THEN [tx EXCEPT !.numConfirmations = @ + 1,
                    !.isConfirmedByCurrentAccount = (data.owner = data.account)]
    ELSE [tx EXCEPT !.numConfirmations = IF @ > 0 THEN @ - 1 ELSE 0,
                    !.isConfirmedByCurrentAccount =
                        IF data.owner = data.account THEN FALSE ELSE @]
confirmedTx(tx, data) ==
    IF data.confirmed
    THEN [tx EXCEPT !.numConfirmations = @ + 1,
                    !.isConfirmedByCurrentAccount = (data.owner = data.account)]
    ELSE [tx EXCEPT !.numConfirmations = @ - 1,
                    !.isConfirmedByCurrentAccount =
                        IF data.owner = data.account THEN FALSE ELSE @]

\* case UPDATE_TX: the record whose txIndex matches
\* (variants: an execution clearing the viewer's flag; a confirmation
\* counted twice)
updatedTx_Unflags(tx, data) ==
    LET t == IF Has(data, "executed") /\ data.executed
             THEN [tx EXCEPT !.executed = TRUE,
                             !.isConfirmedByCurrentAccount = FALSE] ELSE tx
    IN IF Has(data, "confirmed") THEN confirmedTx(t, data) ELSE t
updatedTx_Twice(tx, data) ==
    LET t == IF Has(data, "executed") /\ data.executed
             THEN [tx EXCEPT !.executed = TRUE] ELSE tx
    IN IF Has(data, "confirmed") THEN confirmedTx(confirmedTx(t, data), data) ELSE t
updatedTx(tx, data) ==
    LET t == IF Has(data, "executed") /\ data.executed
             THEN [tx EXCEPT !.executed = TRUE] ELSE tx
    IN IF Has(data, "confirmed") THEN confirmedTx(t, data) ELSE t

reducer(state, action) ==
    IF action.type = SET
    THEN [f \in DOMAIN state |->
            IF Has(action.data, f) THEN action.data[f] ELSE state[f]]
    ELSE IF action.type = UPDATE_BALANCE
    THEN [state EXCEPT !.balance = action.data.balance]
    ELSE IF action.type = ADD_TX
    THEN [state EXCEPT !.transactionCount = @ + 1,
                       !.transactions = <<addedTx(action.data)>> \o @]
    ELSE IF action.type = UPDATE_TX
    THEN LET txIndex == parseInt(action.data.txIndex) IN
         [state EXCEPT !.transactions =
            [k \in 1..Len(@) |->
                IF @[k].txIndex = txIndex
                THEN updatedTx(@[k], action.data) ELSE @[k]]]
    ELSE state

\* ----------------------------------------------------------- the Updater
\* the callback passed to subscribe: what it leaves in the context and what
\* it writes with console.error
onLog(state, viewer, error, log) ==
    IF error # Null THEN [state |-> state, console |-> <<error>>]
    ELSE LET rv == log.returnValues
             action ==
                IF log.event = "Deposit"
                THEN [type |-> UPDATE_BALANCE, data |-> rv]
                ELSE IF log.event = "SubmitTransaction"
                THEN [type |-> ADD_TX, data |-> rv]
                ELSE IF log.event = "ConfirmTransaction"
                THEN [type |-> UPDATE_TX,
                      data |-> [owner |-> rv.owner, txIndex |-> rv.txIndex,
                                confirmed |-> TRUE, account |-> viewer]]
                ELSE IF log.event = "RevokeConfirmation"
                THEN [type |-> UPDATE_TX,
                      data |-> [owner |-> rv.owner, txIndex |-> rv.txIndex,
                                confirmed |-> FALSE, account |-> viewer]]
                ELSE [type |-> UPDATE_TX,
                      data |-> [owner |-> rv.owner, txIndex |-> rv.txIndex,
                                executed |-> TRUE, account |-> viewer]]
         IN [state |-> reducer(state, action), console |-> <<>>]

\* --------------------------------------------------------------- actions
\* The world a call starts in.  A top-level call opens a new receipt; a call
\* made by the callee of an executeTransaction adds to the receipt in progress.
Entry == IF stack = <<>> THEN [World EXCEPT !.logs = <<>>] ELSE World

\* the logs a subscriber gets: those of a top-level call that has succeeded
Subscribed == proj.address # ""
Published(r, done) ==
    IF done /\ r.err = OK /\ Subscribed THEN Wire(r.w.logs) ELSE <<>>

\* r: the [err, w] an entry point returned; done: the top-level call returns.
\* The chain goes on when the subscriber has got the logs of the last receipt.
Commit(r, done) ==
    /\ queue = <<>>
    /\ queue' = queue \o Published(r, done)
    /\ transactions' = r.w.transactions
    /\ balance' = r.w.balance
    /\ logs' = r.w.logs
    /\ sent' = r.w.sent
    /\ ret' = r.err
    /\ UNCHANGED <<ctor, owners, isOwner, numConfirmationsRequired, proj, account,
                   poll, twin, page, frontRunMe>>

\* the receipt keeps room for the event of every executeTransaction in progress
Room(w) == Len(w.logs) + Len(stack) <= MaxLogs

Deposit(sender, value) ==
    /\ balance + value <= MaxBalance
    /\ LET r == fallback(Entry, sender, value) IN Room(r.w) /\ Commit(r, stack = <<>>)
    /\ UNCHANGED stack

Submit(sender, _to, _value, _data) ==
    /\ Len(transactions) < MaxTx
    /\ LET r == submitTransaction(Entry, sender, _to, _value, _data) IN
       Room(r.w) /\ Commit(r, stack = <<>>)
    /\ UNCHANGED stack

Confirm(sender, _txIndex) ==
    /\ LET r == confirmTransaction(Entry, sender, _txIndex) IN
       Room(r.w) /\ Commit(r, stack = <<>>)
    /\ UNCHANGED stack

Revoke(sender, _txIndex) ==
    /\ LET r == revokeConfirmation(Entry, sender, _txIndex) IN
       Room(r.w) /\ Commit(r, stack = <<>>)
    /\ UNCHANGED stack

\* executeTransaction reverts before its callee runs
ExecuteRejected(sender, _txIndex) ==
    /\ LET e == executeReject(Entry, sender, _txIndex) IN
       e # OK /\ Commit(Revert(Entry, e), stack = <<>>)
    /\ UNCHANGED stack

\* executeTransaction makes its external call: control is with the callee
ExecuteCall(sender, _txIndex) ==
    /\ queue = <<>>
    /\ executeReject(Entry, sender, _txIndex) = OK
    /\ Len(Entry.logs) + Len(stack) < MaxLogs
    /\ LET w == executeEnter(Entry, _txIndex) IN
       /\ transactions' = w.transactions
       /\ balance' = w.balance
       /\ logs' = w.logs
       /\ sent' = w.sent
    /\ stack' = Append(stack, [sender |-> sender, txIndex |-> _txIndex,
                               saved |-> Entry])
    /\ UNCHANGED <<ctor, owners, isOwner, numConfirmationsRequired, ret>>
    /\ UNCHANGED <<queue, proj, account, poll, twin, page, frontRunMe>>

\* the callee of the innermost executeTransaction returns
ExecuteReturn(success) ==
    /\ stack # <<>>
    /\ LET f == stack[Len(stack)] IN
       Commit(executeReturn(f.saved, World, f.sender, f.txIndex, success),
              Len(stack) = 1)
    /\ stack' = SubSeq(stack, 1, Len(stack) - 1)

Next ==
    \/ \E s \in Address, v \in Amounts : Deposit(s, v)
    \/ \E s \in Address, p \in SubmitInputs : Submit(s, p.to, p.value, p.data)
    \/ \E s \in Address, i \in TxIndices : Confirm(s, i)
    \/ \E s \in Address, i \in TxIndices : Revoke(s, i)
    \/ \E s \in Address, i \in TxIndices : ExecuteRejected(s, i)
    \/ \E s \in Address, i \in TxIndices : ExecuteCall(s, i)
    \/ \E b \in BOOLEAN : ExecuteReturn(b)

Spec == Init /\ [][Next]_vars

\* -------------------------------------------------- the application
\* The MultiSigWallet context of one viewer attached to the wallet: it reads
\* the wallet once, then folds the logs of the events emitted after that
\* read, one at a time and in the order of their emission.
WalletAddress == "W"
Viewers == {"A", "C"}

\* get(web3, account) of api/multi-sig-wallet: the wallet as it is read
getMultiSigWallet(viewer) ==
    [address |-> WalletAddress,
     balance |-> toDecimal(balance),
     owners |-> owners,
     numConfirmationsRequired |-> numConfirmationsRequired,
     transactionCount |-> Len(transactions),
     transactions |->
        [k \in 1..Len(transactions) |->
            LET txIndex == Len(transactions) - k
                tx == transactions[txIndex + 1]
            IN [txIndex |-> txIndex, to |-> tx.to, value |-> tx.value,
                data |-> tx.data, executed |-> tx.executed,
                numConfirmations |-> tx.numConfirmations,
                isConfirmedByCurrentAccount |-> tx.isConfirmed[viewer]]]]

InitProj ==
    /\ Deployed
    /\ NoFrontRunMe
    /\ queue = <<>>
    /\ proj = INITIAL_STATE
    /\ twin = NoTwin
    /\ \E a \in Viewers : Unlocked(a)

\* useEffect: get(web3, account), then set(data); the subscription starts
Bootstrap ==
    /\ ~Subscribed
    /\ stack = <<>>
    /\ proj' = reducer(proj, [type |-> SET, data |-> getMultiSigWallet(account)])
    /\ queue' = <<>>
    /\ UNCHANGED <<ctor, owners, isOwner, numConfirmationsRequired, transactions,
                   balance, logs, sent, stack, ret, account, poll, twin, page, frontRunMe>>

\* the subscription hands the next log to the callback
Fold ==
    /\ queue # <<>>
    /\ proj' = onLog(proj, account, Null, Head(queue)).state
    /\ queue' = Tail(queue)
    /\ UNCHANGED <<ctor, owners, isOwner, numConfirmationsRequired, transactions,
                   balance, logs, sent, stack, ret, account, poll, twin, page, frontRunMe>>

\* the calls the wallet accepts (a rejected call emits nothing)
Accepted(call) == call /\ ret' = OK

NextProj ==
    \/ \E s \in Address, v \in Amounts : Deposit(s, v)
    \/ \E s \in Address, p \in SubmitInputs :
          Accepted(Submit(s, p.to, p.value, p.data))
    \/ \E s \in Address, i \in TxIndices : Accepted(Confirm(s, i))
    \/ \E s \in Address, i \in TxIndices : Accepted(Revoke(s, i))
    \/ \E s \in Address, i \in TxIndices : ExecuteCall(s, i)
    \/ \E b \in BOOLEAN : ExecuteReturn(b)
    \/ Bootstrap
    \/ Fold

SpecProj == InitProj /\ [][NextProj]_vars

\* ------------------------------------------------------ one fold, any input
\* The callback applied once to a log of any kind in a context of any
\* content: the records of a context need not be those of the wallet.
FoldRecords ==
    { [txIndex |-> i, to |-> p.to, value |-> p.value, data |-> p.data,
       executed |-> x, numConfirmations |-> n, isConfirmedByCurrentAccount |-> c] :
      i \in {0}, p \in SubmitInputs, x \in BOOLEAN, n \in {0, 1}, c \in BOOLEAN }

\* lists of up to MaxTx records, the newest first, indices from 0
FoldLists ==
    UNION { { [k \in 1..n |-> [f[k] EXCEPT !.txIndex = n - k]] :
              f \in [1..n -> FoldRecords] } : n \in 0..MaxTx }

FoldEvents ==
    { DepositEvent(s, v, b) : s \in Address, v \in Amounts, b \in 0..MaxBalance }
    \cup { SubmitTransactionEvent(s, i, p.to, p.value, p.data) :
             s \in {"A", "B"}, i \in TxIndices, p \in SubmitInputs }
    \cup { ConfirmTransactionEvent(s, i) : s \in {"A", "B"}, i \in TxIndices }
    \cup { RevokeConfirmationEvent(s, i) : s \in {"A", "B"}, i \in TxIndices }
    \cup { ExecuteTransactionEvent(s, i) : s \in {"A", "B"}, i \in TxIndices }

InitFold ==
    /\ Deployed
    /\ NoFrontRunMe
    /\ \E l \in FoldLists, b \in 0..MaxBalance :
          proj = [address |-> WalletAddress, balance |-> toDecimal(b),
                  owners |-> owners,
                  numConfirmationsRequired |-> numConfirmationsRequired,
                  transactionCount |-> Len(l), transactions |-> l]
    /\ \E e \in FoldEvents : queue = <<Log(e)>>
    /\ twin = [state |-> proj, queue |-> queue]
    /\ \E a \in Viewers : Unlocked(a)

NextFold == Fold

SpecFold == InitFold /\ [][NextFold]_vars

\* ------------------------------------------------------ the same logs twice
\* Two contexts of one viewer start from the same content and are given the
\* same two logs in the same order; each folds them at its own pace.
ReplayLists == { l \in FoldLists : Len(l) <= 1 }

ReplayEvents ==
    { DepositEvent("A", v, b) : v \in Amounts, b \in 0..MaxBalance }
    \cup { SubmitTransactionEvent("A", i, p.to, p.value, p.data) :
             i \in {0, 1}, p \in SubmitInputs }
    \cup { ConfirmTransactionEvent(s, i) : s \in {"A", "B"}, i \in {0, 1} }
    \cup { RevokeConfirmationEvent(s, i) : s \in {"A", "B"}, i \in {0, 1} }
    \cup { ExecuteTransactionEvent("A", i) : i \in {0, 1} }

InitReplay ==
    /\ Deployed
    /\ NoFrontRunMe
    /\ numConfirmationsRequired = 1
    /\ \E l \in ReplayLists :
          proj = [address |-> WalletAddress, balance |-> "0",
                  owners |-> owners,
                  numConfirmationsRequired |-> numConfirmationsRequired,
                  transactionCount |-> Len(l), transactions |-> l]
    /\ \E e1 \in ReplayEvents, e2 \in ReplayEvents : queue = <<Log(e1), Log(e2)>>
    /\ twin = [state |-> proj, queue |-> queue]
    /\ Unlocked("A")

\* the subscription of the second context hands its next log to its callback
Replay ==
    /\ twin.queue # <<>>
    /\ twin' = [state |-> onLog(twin.state, account, Null, Head(twin.queue)).state,
                queue |-> Tail(twin.queue)]
    /\ UNCHANGED <<chain, frontRunMe, queue, proj, account, poll, page>>

NextReplay == Fold \/ Replay

SpecReplay == InitReplay /\ [][NextReplay]_vars

\* --------------------------------------------------------- subscriptions
\* subscribeToAccount and subscribeToNetId of api/web3.ts: an interval timer
\* whose async callback asks the provider (getAccounts / net.getId), awaits
\* the answer and then invokes the subscriber's callback with it.
InitPoll == Deployed /\ NoApp /\ NoFrontRunMe

\* const id = setInterval(async () => {...}, 1000)
subscribeTo(k) ==
    /\ poll[k].timer = "none"
    /\ poll' = [poll EXCEPT ![k].timer = "set"]
    /\ UNCHANGED <<chain, queue, proj, account, twin, page, frontRunMe>>

\* the timer fires: the async callback sends its query and awaits
Tick(k) ==
    /\ poll[k].timer = "set"
    /\ poll[k].pending < MaxPending
    /\ poll' = [poll EXCEPT ![k].pending = @ + 1]
    /\ UNCHANGED <<chain, queue, proj, account, twin, page, frontRunMe>>

\* callback(null, value) / callback(error, null), after the await
callback(k, outcome) ==
    [poll EXCEPT ![k].pending = @ - 1, ![k].calls = @ + 1, ![k].last = outcome]

\* the provider answers a query
Resolve(k) ==
    /\ poll[k].pending > 0
    /\ poll[k].calls < MaxCalls
    /\ poll' = callback(k, "value")
    /\ UNCHANGED <<chain, queue, proj, account, twin, page, frontRunMe>>

\* the provider fails a query
Reject(k) ==
    /\ poll[k].pending > 0
    /\ poll[k].calls < MaxCalls
    /\ poll' = callback(k, "error")
    /\ UNCHANGED <<chain, queue, proj, account, twin, page, frontRunMe>>

\* the function subscribeTo... returned: clearInterval(id)
unsubscribe(k) ==
    /\ poll[k].timer = "set"
    /\ poll' = [poll EXCEPT ![k].timer = "cleared"]
    /\ UNCHANGED <<chain, queue, proj, account, twin, page, frontRunMe>>

NextPoll ==
    \/ \E k \in Kinds : subscribeTo(k)
    \/ \E k \in Kinds : Tick(k)
    \/ \E k \in Kinds : Resolve(k)
    \/ \E k \in Kinds : Reject(k)
    \/ \E k \in Kinds : unsubscribe(k)

SpecPoll == InitPoll /\ [][NextPoll]_vars

\* ------------------------------------------------------- the Web3 context
\* contexts/Web3.tsx: the state {account, web3, netId}, its reducer, and the
\* Updater whose two effects subscribe to the account and to the network id
\* of the provider while state.web3 is set.
Web3State == [account |-> account, web3 |-> web3, netId |-> netId]

Accounts == {"A", "B"}

\* function reducer(state, action) of contexts/Web3.tsx
UPDATE_ACCOUNT == "UPDATE_ACCOUNT"
UPDATE_NET_ID == "UPDATE_NET_ID"
web3Reducer(state, action) ==
    IF action.type = UPDATE_ACCOUNT
    THEN [state EXCEPT !.web3 = IF action.web3 # Null THEN action.web3 ELSE @,
                       !.account = action.account]
    ELSE IF action.type = UPDATE_NET_ID
    THEN [state EXCEPT !.netId = action.netId]
    ELSE state

\* accounts[0] of web3.eth.getAccounts(): undefined when there is no account
firstAccount == provider.account

\* unlockAccount of api/web3.ts: { web3, account: accounts[0] || "" }
unlockAccount ==
    [web3 |-> "web3",
     account |-> IF firstAccount = Undefined THEN "" ELSE firstAccount]

\* if (error) { console.error(error); }
reported(error) == IF error # Null THEN <<error>> ELSE <<>>

\* the callback of subscribeToAccount in the Updater
onAccount(state, error, polled) ==
    [state |-> state, console |-> reported(error),
     reload |-> polled # Undefined /\ polled # state.account]

\* a network id the callback is given: <<n>> for the number n, <<>> for null
NoId == <<>>
Id(n) == <<n>>

\* if (netId): neither null nor 0
truthy(id) == id # NoId /\ id[1] # 0

\* the callback of subscribeToNetId in the Updater
onNetId(state, error, polled) ==
    IF ~truthy(polled)
    THEN [state |-> state, console |-> reported(error), reload |-> FALSE]
    ELSE IF state.netId = 0
    THEN [state |-> web3Reducer(state, [type |-> UPDATE_NET_ID,
                                        netId |-> polled[1]]),
          console |-> reported(error), reload |-> FALSE]
    ELSE [state |-> state, console |-> reported(error),
          reload |-> polled[1] # state.netId]

\* what the query of a subscription resolves to, and what its failure passes
polledValue(k) == IF k = "account" THEN firstAccount ELSE Id(provider.netId)
failedValue(k) == IF k = "account" THEN Null ELSE NoId
onPoll(k, state, error, polled) ==
    IF k = "account" THEN onAccount(state, error, polled)
    ELSE onNetId(state, error, polled)

InitWeb ==
    /\ Deployed
    /\ NoFrontRunMe
    /\ queue = <<>>
    /\ proj = INITIAL_STATE
    /\ twin = NoTwin
    /\ \E a \in Accounts : Loaded(a)

\* the viewer connects: updateAccount(await unlockAccount())
Unlock ==
    /\ web3 = Null
    /\ LET s == web3Reducer(Web3State, [type |-> UPDATE_ACCOUNT,
                                        web3 |-> unlockAccount.web3,
                                        account |-> unlockAccount.account])
       IN /\ account' = s.account
          /\ web3' = s.web3
          /\ netId' = s.netId
    /\ UNCHANGED <<chain, frontRunMe, queue, proj, twin, poll, provider, console>>

\* the effects of the Updater: if (state.web3) subscribeTo...(state.web3, ...)
Effect(k) == web3 # Null /\ subscribeTo(k)

\* window.location.reload(): the page starts again from its initial state
Reload ==
    /\ account' = ""
    /\ web3' = Null
    /\ netId' = 0
    /\ poll' = NoPoll
    /\ console' = <<>>
    /\ proj' = INITIAL_STATE
    /\ queue' = <<>>
    /\ UNCHANGED <<chain, frontRunMe, twin, provider>>

\* a query of subscription k ends and the Updater's callback runs on it
Polled(k, outcome, error, polled) ==
    /\ poll[k].pending > 0
    /\ poll[k].calls < MaxCalls
    /\ LET r == onPoll(k, Web3State, error, polled) IN
       IF r.reload THEN Reload
       ELSE /\ poll' = callback(k, outcome)
            /\ account' = r.state.account
            /\ web3' = r.state.web3
            /\ netId' = r.state.netId
            /\ console' = r.console
            /\ UNCHANGED <<chain, frontRunMe, queue, proj, twin, provider>>

\* callback(null, accounts[0]) / callback(null, netId)
Answer(k) == Polled(k, "value", Null, polledValue(k))

\* catch (error) { callback(error, null) }
Fail(k) == Polled(k, "error", "error", failedValue(k))

\* the viewer switches the account of the provider, or locks it
AccountsChanged(a) ==
    /\ a # provider.account
    /\ provider' = [provider EXCEPT !.account = a]
    /\ UNCHANGED <<chain, frontRunMe, queue, proj, twin, account, poll, web3, netId, console>>

\* the viewer switches the network of the provider
ChainChanged(n) ==
    /\ n # provider.netId
    /\ provider' = [provider EXCEPT !.netId = n]
    /\ UNCHANGED <<chain, frontRunMe, queue, proj, twin, account, poll, web3, netId, console>>

NextWeb ==
    \/ Unlock
    \/ \E k \in Kinds : Effect(k)
    \/ \E k \in Kinds : Tick(k)
    \/ \E k \in Kinds : Answer(k)
    \/ \E k \in Kinds : Fail(k)
    \/ \E a \in Accounts \cup {Undefined} : AccountsChanged(a)
    \/ \E n \in NetIds : ChainChanged(n)

SpecWeb == InitWeb /\ [][NextWeb]_vars

\* ------------------------------------------------------------ FrontRunMe
\* contract FrontRunMe: deposit stores a secret for its caller, withdraw
\* sends the whole balance to a caller who gives the secret stored for _user.
\* The send is an external call: the receiver may call back into the
\* contract before it returns, and a failed send reverts the withdraw.
\* the state of the contract that a revert rolls back
Vault == [addressToSecret |-> addressToSecret, balance |-> frontRunBalance,
          depositors |-> depositors]

\* function deposit(bytes32 _secret) public payable
deposit(v, sender, value, _secret) ==
    [v EXCEPT !.addressToSecret[sender] = _secret,
              !.balance = @ + value,
              !.depositors = @ \cup {sender}]

\* require(addressToSecret[_user] == _secret, "Wrong Password!")
withdrawReject(v, _user, _secret) ==
    IF v.addressToSecret[_user] # _secret THEN "Wrong Password!" ELSE OK

\* msg.sender.call{value: address(this).balance}(""): the balance goes with
\* the call
withdrawEnter(v) == [v EXCEPT !.balance = 0]

InitFrontRun == Deployed /\ NoApp /\ NoFrontRunMe

FrontRunDeposit(sender, value, _secret) ==
    /\ frontRunBalance + value <= MaxFunds
    /\ LET v == deposit(Vault, sender, value, _secret) IN
       /\ addressToSecret' = v.addressToSecret
       /\ frontRunBalance' = v.balance
       /\ depositors' = v.depositors
    /\ answer' = OK
    /\ UNCHANGED <<chain, queue, proj, account, poll, twin, page, withdrawing>>

\* withdraw reverts at its first require
WithdrawRejected(sender, _user, _secret) ==
    /\ withdrawReject(Vault, _user, _secret) # OK
    /\ answer' = withdrawReject(Vault, _user, _secret)
    /\ UNCHANGED <<chain, queue, proj, account, poll, twin, page, addressToSecret,
                   frontRunBalance, depositors, withdrawing>>

\* withdraw makes its external call: control is with the caller's code
WithdrawCall(sender, _user, _secret) ==
    /\ withdrawReject(Vault, _user, _secret) = OK
    /\ Len(withdrawing) < MaxDepth
    /\ withdrawing' = Append(withdrawing,
                             [sender |-> sender, _user |-> _user,
                              _secret |-> _secret, saved |-> Vault])
    /\ frontRunBalance' = withdrawEnter(Vault).balance
    /\ UNCHANGED <<chain, queue, proj, account, poll, twin, page, addressToSecret,
                   depositors, answer>>

\* the external call of the innermost withdraw returns; require(sent, ...)
WithdrawReturn(success) ==
    /\ withdrawing # <<>>
    /\ LET f == withdrawing[Len(withdrawing)] IN
       IF success
       THEN /\ answer' = OK
            /\ UNCHANGED <<addressToSecret, frontRunBalance, depositors>>
       ELSE /\ answer' = "Failed to send Ether"
            /\ addressToSecret' = f.saved.addressToSecret
            /\ frontRunBalance' = f.saved.balance
            /\ depositors' = f.saved.depositors
    /\ withdrawing' = SubSeq(withdrawing, 1, Len(withdrawing) - 1)
    /\ UNCHANGED <<chain, queue, proj, account, poll, twin, page>>

NextFrontRun ==
    \/ \E s \in Address, v \in Amounts, k \in Secrets : FrontRunDeposit(s, v, k)
    \/ \E s \in Address, u \in Address, k \in Secrets : WithdrawRejected(s, u, k)
    \/ \E s \in Address, u \in Address, k \in Secrets : WithdrawCall(s, u, k)
    \/ \E b \in BOOLEAN : WithdrawReturn(b)

SpecFrontRun == InitFrontRun /\ [][NextFrontRun]_vars

\* ------------------------------------------------------------ deployment
\* A constructor call with arbitrary arguments: a failed construction leaves
\* no contract behind.
InitCtor ==
    /\ ctor \in [_owners : OwnerLists, _numConfirmationsRequired : Thresholds,
                  err : {Pending}]
    /\ owners = <<>>
    /\ isOwner = NoOwner
    /\ numConfirmationsRequired = 0
    /\ transactions = <<>>
    /\ balance = 0
    /\ logs = <<>>
    /\ sent = <<>>
    /\ stack = <<>>
    /\ ret = OK
    /\ NoApp
    /\ NoFrontRunMe

Construct ==
    /\ ctor.err = Pending
    /\ LET c == constructor(ctor._owners, ctor._numConfirmationsRequired) IN
       /\ ctor' = [ctor EXCEPT !.err = c.err]
       /\ IF c.err = OK
          THEN /\ owners' = c.owners
               /\ isOwner' = c.isOwner
               /\ numConfirmationsRequired' = c.numConfirmationsRequired
          ELSE UNCHANGED <<owners, isOwner, numConfirmationsRequired>>
    /\ UNCHANGED <<transactions, balance, logs, sent, stack, ret>>
    /\ UNCHANGED <<queue, proj, account, poll, twin, page, frontRunMe>>

NextCtor == Construct

SpecCtor == InitCtor /\ [][NextCtor]_vars

\* function getOwners() public view returns (address[] memory)
getOwners == owners

\* ------------------------------------------------- vocabulary of the claims
Owners == {a \in Address : isOwner[a]}
Exists(i) == i < Len(transactions)
Tx(i) == transactions[i + 1]
Confirmers(tx) == {a \in AnyAddress : tx.isConfirmed[a]}
InCall == stack # <<>>
Top == stack[Len(stack)]
LastLog == logs[Len(logs)]
\* a step in which an executeTransaction made its external call / got it back
Called == Len(stack') = Len(stack) + 1
Returned == Len(stack') = Len(stack) - 1

\* ---------------------------------------------------------------------- C1
\* what executeTransaction(i) answers an owner, in every state:
\* AlreadyExecuted, InsufficientConfirmations, TransferFailed when the wallet
\* cannot pay the value, and otherwise the external call is made
C1_Answer ==
    \A s \in Owners, i \in TxIndices : Exists(i) =>
        LET e == executeReject(Entry, s, i) IN
        IF Tx(i).executed THEN e = "tx already executed"
        ELSE IF Tx(i).numConfirmations < numConfirmationsRequired
             THEN e = "cannot execute tx"
        ELSE IF balance < Tx(i).value THEN e = "tx failed"
        ELSE e = OK

\* the transfer of a transaction is in effect at most once, and outside any
\* call in progress exactly when the transaction is executed
C1_Once ==
    \A i \in TxIndices : Exists(i) =>
        /\ sent[i + 1] <= 1
        /\ ~InCall => (Tx(i).executed <=> sent[i + 1] = 1)

\* a call that was let through sets executed before its callee runs; when
\* the callee returns the call either succeeds, leaving executed set and
\* emitting ExecuteTransaction(caller, i), or fails with TransferFailed
C1_Step ==
    /\ Called => LET f == stack'[Len(stack')] IN
                 /\ executeReject(Entry, f.sender, f.txIndex) = OK
                 /\ transactions'[f.txIndex + 1].executed
    /\ Returned =>
         /\ ret' \in {OK, "tx failed"}
         /\ ret' = OK =>
              /\ transactions'[Top.txIndex + 1].executed
              /\ logs' = Append(logs, ExecuteTransactionEvent(Top.sender, Top.txIndex))
         /\ ret' = "tx failed" => ~transactions'[Top.txIndex + 1].executed

\* executed, once committed by a top-level call, stays set
C1_Permanent ==
    \A i \in TxIndices :
        (~InCall /\ Exists(i) /\ Tx(i).executed) =>
            (i < Len(transactions') /\ transactions'[i + 1].executed)

\* C1 (as amended): for every transaction i and owner caller,
\* executeTransaction(i) fails with InsufficientConfirmations below the
\* threshold; at or above it the call succeeds unless the external transfer
\* fails (TransferFailed, the transaction stays unexecuted); it succeeds at
\* most once, whoever of the owners calls; executed, once committed, stays
\* true and every later executeTransaction(i) fails with AlreadyExecuted.
C1_ExecuteThreshold ==
    /\ [](C1_Answer /\ C1_Once)
    /\ [][C1_Step /\ C1_Permanent]_vars

\* C1 witness: an owner who did not confirm transaction i has executed it
C1_Witness ==
    /\ ~InCall /\ ret = OK /\ logs # <<>>
    /\ LastLog.event = "ExecuteTransaction"
    /\ Tx(LastLog.txIndex).executed
    /\ ~Tx(LastLog.txIndex).isConfirmed[LastLog.owner]
    /\ Tx(LastLog.txIndex).numConfirmations >= numConfirmationsRequired

\* C1 as stated: with numConfirmations >= numConfirmationsRequired the call
\* succeeds, with fewer it fails with InsufficientConfirmations, and on an
\* executed transaction with AlreadyExecuted
C1_Original ==
    \A s \in Owners, i \in TxIndices : Exists(i) =>
        LET e == executeReject(Entry, s, i) IN
        IF Tx(i).executed THEN e = "tx already executed"
        ELSE IF Tx(i).numConfirmations < numConfirmationsRequired
             THEN e = "cannot execute tx"
        ELSE e = OK

\* ---------------------------------------------------------------------- C2
\* confirm, revoke and execute on an executed transaction are rejected
C2_Rejected ==
    \A s \in Owners, i \in TxIndices : (Exists(i) /\ Tx(i).executed) =>
        /\ confirmTransaction(Entry, s, i) = Revert(Entry, "tx already executed")
        /\ revokeConfirmation(Entry, s, i) = Revert(Entry, "tx already executed")
        /\ executeReject(Entry, s, i) = "tx already executed"

\* the record of an executed transaction is the same after the step
C2_Same(i) == i < Len(transactions') /\ transactions'[i + 1] = Tx(i)

\* C2 (as amended): once a transaction has executed = true in a state in which
\* no executeTransaction call is in progress, its record is frozen in every
\* later state: executed stays true and numConfirmations and isConfirmed never
\* change; in every state, confirmTransaction, revokeConfirmation and
\* executeTransaction on an executed index are rejected.
C2_Frozen ==
    /\ []C2_Rejected
    /\ [][\A i \in TxIndices :
            (~InCall /\ Exists(i) /\ Tx(i).executed) => C2_Same(i)]_vars

\* C2 witness: an executed transaction is committed and a later call on it
\* was rejected
C2_Witness ==
    /\ ~InCall /\ ret = "tx already executed"
    /\ \E i \in TxIndices : Exists(i) /\ Tx(i).executed /\ Tx(i).numConfirmations > 0

\* C2 as stated: in every step, a transaction that has executed = true keeps
\* its record, executed included
C2_Original ==
    [][\A i \in TxIndices : (Exists(i) /\ Tx(i).executed) => C2_Same(i)]_vars

\* ---------------------------------------------------------------------- C3
\* C3: in every reachable state numConfirmations of every transaction equals
\* the number of addresses whose isConfirmed entry is true.
C3_CountMatchesSet ==
    \A i \in TxIndices : Exists(i) =>
        Tx(i).numConfirmations = Cardinality(Confirmers(Tx(i)))

\* C3 witness: a revocation has just lowered a count that stays above zero
C3_Witness ==
    /\ logs # <<>> /\ LastLog.event = "RevokeConfirmation"
    /\ Tx(LastLog.txIndex).numConfirmations = 1
    /\ \E i \in TxIndices : Exists(i) /\ Tx(i).numConfirmations = 2

\* ---------------------------------------------------------------------- C4
\* C4: when the external transfer of executeTransaction(i) fails, the call
\* fails with TransferFailed and the state is the one before the call:
\* executed of i still false, balance, confirmations, every record and the
\* transfers in effect unchanged, no ExecuteTransaction event emitted.
C4_TransferFailedRollsBack ==
    [][(~Called /\ ret' = "tx failed") =>
         IF Returned
         THEN /\ World' = Top.saved
              /\ ~transactions'[Top.txIndex + 1].executed
              /\ stack' = SubSeq(stack, 1, Len(stack) - 1)
         ELSE /\ World' = Entry
              /\ stack' = stack]_vars

\* C4 witness: a callee has failed the transfer of a transaction the wallet
\* could pay, and the transaction is pending again with its confirmations
C4_Witness ==
    /\ ~InCall /\ ret = "tx failed" /\ logs = <<>>
    /\ \E i \in TxIndices :
          /\ Exists(i) /\ ~Tx(i).executed /\ sent[i + 1] = 0
          /\ Tx(i).numConfirmations >= numConfirmationsRequired
    /\ \A i \in TxIndices : Exists(i) => balance >= Tx(i).value

\* ---------------------------------------------------------------------- C5
\* C5: executed of transaction i is set while the callee of
\* executeTransaction(i) runs, so an executeTransaction(i) issued by an owner
\* during the external call is rejected with AlreadyExecuted, and the
\* transfer of a transaction is never in effect more than once.
C5_ReentrantExecuteRejected ==
    /\ \A k \in 1..Len(stack) :
          /\ Tx(stack[k].txIndex).executed
          /\ \A s \in Owners :
                executeReject(Entry, s, stack[k].txIndex) = "tx already executed"
    /\ \A i \in TxIndices : Exists(i) => sent[i + 1] <= 1

\* C5 witness: the callee of the only transaction's execution has called
\* back and was answered AlreadyExecuted
C5_Witness ==
    /\ InCall /\ Len(transactions) = 1
    /\ ret = "tx already executed"
    /\ sent[1] = 1

\* ---------------------------------------------------------------------- C6
\* C6: submitTransaction, confirmTransaction, revokeConfirmation and
\* executeTransaction by an address outside the owner set are rejected with
\* Unauthorized, leave the state unchanged and emit no event.
C6_NonOwnerRejected ==
    \A s \in AnyAddress \ Owners :
        /\ \A p \in SubmitInputs :
              submitTransaction(Entry, s, p.to, p.value, p.data)
                  = Revert(Entry, "not owner")
        /\ \A i \in TxIndices :
              /\ confirmTransaction(Entry, s, i) = Revert(Entry, "not owner")
              /\ revokeConfirmation(Entry, s, i) = Revert(Entry, "not owner")
              /\ executeReject(Entry, s, i) = "not owner"

\* C6 witness: a call was rejected with Unauthorized while a confirmed
\* transaction was waiting
C6_Witness ==
    /\ ret = "not owner" /\ ~InCall /\ logs = <<>>
    /\ \E i \in TxIndices : Exists(i) /\ Tx(i).numConfirmations > 0

\* ---------------------------------------------------------------------- C7
Untouched(w, i) ==
    /\ Len(w.transactions) = Len(transactions)
    /\ \A j \in TxIndices : (Exists(j) /\ j # i) => w.transactions[j + 1] = Tx(j)
    /\ w.transactions[i + 1].to = Tx(i).to
    /\ w.transactions[i + 1].value = Tx(i).value
    /\ w.transactions[i + 1].data = Tx(i).data
    /\ w.transactions[i + 1].executed = Tx(i).executed
    /\ w.balance = balance
    /\ w.sent = sent

\* C7: confirmTransaction(i) by an owner fails with NotFound when i is out
\* of range, with AlreadyExecuted when i is executed, with AlreadyConfirmed
\* when the caller has confirmed i, each time changing nothing; otherwise it
\* adds the caller to the confirmation set, raises numConfirmations by
\* exactly 1 and emits ConfirmTransaction(caller, i).
C7_Confirm ==
    \A s \in Owners, i \in TxIndices :
        LET r == confirmTransaction(Entry, s, i) IN
        IF ~Exists(i) THEN r = Revert(Entry, "tx does not exist")
        ELSE IF Tx(i).executed THEN r = Revert(Entry, "tx already executed")
        ELSE IF Tx(i).isConfirmed[s] THEN r = Revert(Entry, "tx already confirmed")
        ELSE /\ r.err = OK
             /\ Confirmers(r.w.transactions[i + 1]) = Confirmers(Tx(i)) \cup {s}
             /\ r.w.transactions[i + 1].numConfirmations = Tx(i).numConfirmations + 1
             /\ r.w.logs = Append(Entry.logs, ConfirmTransactionEvent(s, i))
             /\ Untouched(r.w, i)

\* C7 witness: a second confirmation by the same owner was rejected
C7_Witness ==
    /\ ret = "tx already confirmed"
    /\ \E i \in TxIndices : Exists(i) /\ ~Tx(i).executed /\ Tx(i).numConfirmations = 1

\* ---------------------------------------------------------------------- C8
\* C8: revokeConfirmation(i) by an owner fails with NotFound when i is out of
\* range, with AlreadyExecuted when i is executed, with NotYetConfirmed when
\* the caller is not in the confirmation set, each time changing nothing;
\* otherwise it removes the caller, lowers numConfirmations by exactly 1 and
\* emits RevokeConfirmation(caller, i); numConfirmations is never below 0.
C8_Revoke ==
    /\ \A i \in TxIndices : Exists(i) => Tx(i).numConfirmations >= 0
    /\ \A s \in Owners, i \in TxIndices :
        LET r == revokeConfirmation(Entry, s, i) IN
        IF ~Exists(i) THEN r = Revert(Entry, "tx does not exist")
        ELSE IF Tx(i).executed THEN r = Revert(Entry, "tx already executed")
        ELSE IF ~Tx(i).isConfirmed[s] THEN r = Revert(Entry, "tx not confirmed")
        ELSE /\ r.err = OK
             /\ Confirmers(r.w.transactions[i + 1]) = Confirmers(Tx(i)) \ {s}
             /\ r.w.transactions[i + 1].numConfirmations = Tx(i).numConfirmations - 1
             /\ r.w.transactions[i + 1].numConfirmations >= 0
             /\ r.w.logs = Append(Entry.logs, RevokeConfirmationEvent(s, i))
             /\ Untouched(r.w, i)

\* C8 witness: a revocation by an owner who had not confirmed was rejected
\* on a transaction without confirmations
C8_Witness ==
    /\ ret = "tx not confirmed"
    /\ \E i \in TxIndices : Exists(i) /\ ~Tx(i).executed /\ Tx(i).numConfirmations = 0

\* ---------------------------------------------------------------------- C9
\* C9: for a pending transaction i and an owner o who has not confirmed it,
\* confirmTransaction(i) by o followed by revokeConfirmation(i) by o both
\* succeed and leave every field of every transaction as it was:
\* numConfirmations of i at its value before, isConfirmed(i, o) false.
C9_ConfirmRevokeRoundTrip ==
    \A o \in Owners, i \in TxIndices :
        (Exists(i) /\ ~Tx(i).executed /\ ~Tx(i).isConfirmed[o]) =>
            LET r1 == confirmTransaction(Entry, o, i)
                r2 == revokeConfirmation(r1.w, o, i)
            IN /\ r1.err = OK
               /\ r1.w.transactions[i + 1].isConfirmed[o]
               /\ r2.err = OK
               /\ ~r2.w.transactions[i + 1].isConfirmed[o]
               /\ r2.w.transactions[i + 1].numConfirmations = Tx(i).numConfirmations
               /\ r2.w.transactions = transactions

\* C9 witness: an owner has revoked the confirmation they gave to a pending
\* transaction that another owner still confirms
C9_Witness ==
    /\ ret = OK /\ logs # <<>> /\ LastLog.event = "RevokeConfirmation"
    /\ ~Tx(LastLog.txIndex).executed
    /\ ~Tx(LastLog.txIndex).isConfirmed[LastLog.owner]
    /\ Tx(LastLog.txIndex).numConfirmations = 1

\* --------------------------------------------------------------------- C10
\* submitTransaction by an owner succeeds and appends the record at the index
\* that was the transaction count
C10_Appends ==
    \A s \in Owners, p \in SubmitInputs :
        LET r == submitTransaction(Entry, s, p.to, p.value, p.data)
            n == Len(transactions)
            tx == r.w.transactions[n + 1]
        IN /\ r.err = OK
           /\ Len(r.w.transactions) = n + 1
           /\ SubSeq(r.w.transactions, 1, n) = transactions
           /\ tx.to = p.to /\ tx.value = p.value /\ tx.data = p.data
           /\ tx.executed = FALSE
           /\ tx.numConfirmations = 0
           /\ Confirmers(tx) = {}
           /\ r.w.logs = Append(Entry.logs,
                  SubmitTransactionEvent(s, n, p.to, p.value, p.data))
           /\ r.w.balance = balance

\* the transaction count changes only by one accepted submission, which
\* takes the next index, or by the rollback of a failed execution
C10_CountStep ==
    Len(transactions') # Len(transactions) =>
        \/ Returned /\ ret' = "tx failed"
        \/ /\ Len(transactions') = Len(transactions) + 1
           /\ SubSeq(transactions', 1, Len(transactions)) = transactions
           /\ ret' = OK
           /\ logs'[Len(logs')].event = "SubmitTransaction"
           /\ logs'[Len(logs')].txIndex = Len(transactions)

\* C10: submitTransaction by an owner always succeeds and appends a record
\* with executed = false, numConfirmations = 0 and no owner confirmed at the
\* index equal to the transaction count before the call, emitting
\* SubmitTransaction(submitter, index, to, value, data); the count grows by
\* one per accepted submission, so that N submissions take the indices
\* 0..N-1 in submission order and leave getTransactionCount() = N.
C10_Submit == []C10_Appends /\ [][C10_CountStep]_vars

\* C10 witness: a second submission, different from the first, took index 1
C10_Witness ==
    /\ ~InCall /\ ret = OK /\ Len(transactions) = 2
    /\ logs # <<>> /\ LastLog.event = "SubmitTransaction" /\ LastLog.txIndex = 1
    /\ LastLog.to = Tx(1).to /\ Tx(0).to # Tx(1).to
    /\ Tx(1).numConfirmations = 0 /\ ~Tx(1).executed

\* --------------------------------------------------------------------- C11
Range(seq) == {seq[k] : k \in 1..Len(seq)}
Distinct(seq) == \A j, k \in 1..Len(seq) : j # k => seq[j] # seq[k]

\* the arguments the claim says construction refuses
C11_Refused(_owners, n) ==
    \/ Len(_owners) = 0
    \/ n = 0
    \/ n > Len(_owners)
    \/ ~Distinct(_owners)
    \/ ZeroAddress \in Range(_owners)

\* C11: construction fails when the owner list is empty, the threshold is 0
\* or exceeds the number of owners, an owner appears twice or is the zero
\* address; otherwise it succeeds, getOwners() returns the owners in input
\* order and numConfirmationsRequired is the threshold.
C11_Constructor ==
    ctor.err # Pending =>
        IF C11_Refused(ctor._owners, ctor._numConfirmationsRequired)
        THEN /\ ctor.err # OK
             /\ getOwners = <<>> /\ isOwner = NoOwner
             /\ numConfirmationsRequired = 0
        ELSE /\ ctor.err = OK
             /\ getOwners = ctor._owners
             /\ numConfirmationsRequired = ctor._numConfirmationsRequired
             /\ \A a \in AnyAddress : isOwner[a] <=> a \in Range(ctor._owners)

\* the deployment of the test suite: three owners, two confirmations
C11_Witness ==
    /\ ctor.err = OK
    /\ getOwners = <<"A", "B", "C">>
    /\ numConfirmationsRequired = 2

\* --------------------------------------------------------------------- C12
\* C12: in every state after a successful construction the owners and
\* numConfirmationsRequired are the values the constructor was given, the
\* owner list is non-empty and without duplicates, and
\* 0 < numConfirmationsRequired <= number of owners.
C12_OwnersFixed ==
    /\ ctor.err = OK
    /\ owners = ctor._owners
    /\ numConfirmationsRequired = ctor._numConfirmationsRequired
    /\ \A a \in AnyAddress : isOwner[a] <=> a \in Range(owners)
    /\ Len(owners) > 0
    /\ Distinct(owners)
    /\ 0 < numConfirmationsRequired
    /\ numConfirmationsRequired <= Len(owners)

\* operations of every kind have been accepted, an execution included
C12_Witness ==
    /\ ~InCall
    /\ Len(transactions) = MaxTx
    /\ \E i \in TxIndices : Exists(i) /\ Tx(i).executed /\ Tx(i).value = 1
    /\ \E i \in TxIndices : Exists(i) /\ ~Tx(i).executed /\ Tx(i).numConfirmations = 1
    /\ numConfirmationsRequired = 2

\* --------------------------------------------------------------------- C13
\* C13: a deposit of any amount by any caller, owner or not, succeeds, raises
\* the balance by exactly that amount, changes no transaction record and
\* emits Deposit(sender, amount, balance) with the balance after the deposit.
C13_Deposit ==
    \A s \in Address, v \in Amounts :
        LET r == fallback(Entry, s, v) IN
        /\ r.err = OK
        /\ r.w.balance = Entry.balance + v
        /\ r.w.transactions = Entry.transactions
        /\ r.w.sent = Entry.sent
        /\ r.w.logs = Append(Entry.logs,
                             [event |-> "Deposit", sender |-> s, amount |-> v,
                              balance |-> Entry.balance + v])

\* somebody who is no owner has deposited into a wallet holding transactions
C13_Witness ==
    /\ ~InCall
    /\ ret = OK
    /\ logs = <<[event |-> "Deposit", sender |-> "C", amount |-> 1, balance |-> 1]>>
    /\ ~isOwner["C"]
    /\ balance = 1
    /\ Len(transactions) > 0

\* --------------------------------------------------------------------- C14
\* what the events of a receipt add to the balance: a Deposit its amount, an
\* ExecuteTransaction the value of its transaction, negated
RECURSIVE C14_Delta(_, _)
C14_Delta(receipt, txs) ==
    IF receipt = <<>> THEN 0
    ELSE LET e == receipt[1]
             d == IF e.event = "Deposit" THEN e.amount
                  ELSE IF e.event = "ExecuteTransaction"
                       THEN 0 - txs[e.txIndex + 1].value
                       ELSE 0
         IN d + C14_Delta(Tail(receipt), txs)

\* the balance before the top-level call in progress
C14_Base == IF InCall THEN stack[1].saved.balance ELSE balance

C14_State ==
    /\ balance >= 0
    /\ \A s \in Address :
        /\ \A p \in SubmitInputs :
              submitTransaction(Entry, s, p.to, p.value, p.data).w.balance = balance
        /\ \A i \in TxIndices :
              /\ confirmTransaction(Entry, s, i).w.balance = balance
              /\ revokeConfirmation(Entry, s, i).w.balance = balance
              /\ (Exists(i) /\ Tx(i).value > balance)
                    => executeReject(Entry, s, i) # OK

C14_Step ==
    \* inside a call: a deposit, the transfer of an execute, or its rollback
    /\ balance' # balance =>
          \/ /\ Called
             /\ balance' = balance - transactions[stack'[Len(stack')].txIndex + 1].value
          \/ /\ Returned /\ ret' = "tx failed"
             /\ balance' = Top.saved.balance
          \/ /\ stack' = stack /\ ret' = OK
             /\ logs'[Len(logs')].event = "Deposit"
             /\ balance' = balance + logs'[Len(logs')].amount
    \* a completed top-level call: the deposits and executions of its receipt
    /\ stack' = <<>> =>
          balance' = C14_Base + C14_Delta(logs', transactions')

\* C14: the balance is never negative and changes only by deposits (+amount)
\* and successful executions (-value); submit, confirm, revoke and every
\* rejected operation leave it unchanged, and an executeTransaction whose
\* value exceeds the balance does not succeed.
C14_Balance == []C14_State /\ [][C14_Step]_vars

\* a payment has been executed and the deposit that funded it is spent
C14_Witness ==
    /\ ~InCall
    /\ ret = OK
    /\ balance = 0
    /\ logs # <<>>
    /\ LastLog.event = "ExecuteTransaction"
    /\ Tx(LastLog.txIndex).value = 1
    /\ sent[LastLog.txIndex + 1] = 1

\* --------------------------------------------------------------------- C15
\* the state change an event of a call without external call reports
C15_Matches(e) ==
    \/ /\ e.event = "Deposit"
       /\ balance' = balance + e.amount
       /\ transactions' = transactions
    \/ /\ e.event = "SubmitTransaction"
       /\ e.txIndex = Len(transactions)
       /\ Len(transactions') = Len(transactions) + 1
       /\ SubSeq(transactions', 1, Len(transactions)) = transactions
       /\ balance' = balance
    \/ /\ e.event = "ConfirmTransaction"
       /\ Exists(e.txIndex)
       /\ ~Tx(e.txIndex).isConfirmed[e.owner]
       /\ transactions' = [transactions EXCEPT
                             ![e.txIndex + 1].isConfirmed[e.owner] = TRUE,
                             ![e.txIndex + 1].numConfirmations = @ + 1]
       /\ balance' = balance
    \/ /\ e.event = "RevokeConfirmation"
       /\ Exists(e.txIndex)
       /\ Tx(e.txIndex).isConfirmed[e.owner]
       /\ transactions' = [transactions EXCEPT
                             ![e.txIndex + 1].isConfirmed[e.owner] = FALSE,
                             ![e.txIndex + 1].numConfirmations = @ - 1]
       /\ balance' = balance

C15_Step ==
    IF Called
    THEN \* executed is set and the value sent: no event yet
         /\ logs' = Entry.logs
         /\ transactions' # transactions
    ELSE IF Returned
    THEN IF ret' = OK
         THEN logs' = Append(logs, [event |-> "ExecuteTransaction",
                                    owner |-> Top.sender, txIndex |-> Top.txIndex])
         ELSE logs' = Top.saved.logs
    ELSE IF ret' = OK
         THEN /\ Len(logs') = Len(Entry.logs) + 1
              /\ SubSeq(logs', 1, Len(Entry.logs)) = Entry.logs
              /\ C15_Matches(logs'[Len(logs')])
         ELSE /\ logs' = Entry.logs
              /\ transactions' = transactions
              /\ balance' = balance

\* C15: every accepted operation emits exactly one event of its kind, when
\* it completes; every rejected operation emits none; the events of one
\* receipt are in the order in which the operations completed, so the event
\* of an executeTransaction follows the events of the operations nested in
\* its external call.
C15_EmitsOnCompletion == [][C15_Step]_vars

\* a confirmation made inside the external call of an execution
C15_Witness ==
    /\ ~InCall
    /\ ret = OK
    /\ Len(logs) = 2
    /\ logs[1].event = "ConfirmTransaction"
    /\ logs[2].event = "ExecuteTransaction"
    /\ logs[1].txIndex # logs[2].txIndex

\* The claim as stated: the events are in the order in which the state
\* changes were applied.  An executeTransaction applies its state change
\* before its external call, so no event of an operation applied later may
\* have been emitted when its own event is.
C15_InOrder == (Returned /\ ret' = OK) => logs = Top.saved.logs
C15_Original == [][C15_Step /\ C15_InOrder]_vars

\* --------------------------------------------------------------------- C16
\* the context has folded every log of the wallet's committed events
Folded == Subscribed /\ queue = <<>> /\ stack = <<>>

\* the records of the context with a given index
Records(i) == {k \in 1..Len(proj.transactions) : proj.transactions[k].txIndex = i}

\* C16: from a context that equals the wallet where it was read, after every
\* later event has been folded once and in order, the context holds exactly
\* one record for each transaction of the wallet, whose numConfirmations and
\* executed are the wallet's, and its transactionCount is the wallet's.
C16_RecordsFollow ==
    Folded =>
        /\ proj.transactionCount = Len(transactions)
        /\ Len(proj.transactions) = Len(transactions)
        /\ \A i \in 0..(Len(transactions) - 1) :
              /\ Cardinality(Records(i)) = 1
              /\ \A k \in Records(i) :
                    /\ proj.transactions[k].numConfirmations = Tx(i).numConfirmations
                    /\ proj.transactions[k].executed = Tx(i).executed
                    /\ proj.transactions[k].to = Tx(i).to
                    /\ proj.transactions[k].value = Tx(i).value

\* the events of a receipt with a nested confirmation have been folded: the
\* execution of a payment, which the balance of the context does not show,
\* and a confirmation of the other transaction
C16_Witness ==
    /\ Folded
    /\ ret = OK
    /\ Len(logs) = 2
    /\ logs[1].event = "ConfirmTransaction"
    /\ logs[2].event = "ExecuteTransaction"
    /\ Len(proj.transactions) = 2
    /\ proj.transactions[1].numConfirmations = 1
    /\ proj.transactions[2].executed
    /\ proj.balance # toDecimal(balance)

\* --------------------------------------------------------------------- C17
\* C17: after every event has been folded once and in order the balance of
\* the context is the balance of the wallet, executions that transfer value
\* included.
C17_BalanceFollows == Folded => proj.balance = toDecimal(balance)

\* --------------------------------------------------------------------- C18
\* C18: after any in-order sequence of confirmations and revocations has
\* been folded, isConfirmedByCurrentAccount of a record is true exactly when
\* the viewer is among the confirmers of the transaction in the wallet.
C18_FlagFollows ==
    Folded =>
        \A k \in 1..Len(proj.transactions) :
            LET tx == proj.transactions[k] IN
            Exists(tx.txIndex) =>
                (tx.isConfirmedByCurrentAccount <=> Tx(tx.txIndex).isConfirmed[account])

\* --------------------------------------------------------------------- C19
\* a log of a confirmation, revocation or execution whose txIndex no record
\* of the context has
C19_Missing(log) ==
    /\ log.event \in {"ConfirmTransaction", "RevokeConfirmation", "ExecuteTransaction"}
    /\ Records(parseInt(log.returnValues.txIndex)) = {}

\* C19: a confirmation, revocation or execution whose txIndex is not in the
\* context's list is not skipped in silence: the callback reports an error
\* and leaves the context to be read anew.
C19_MissingReported ==
    (queue # <<>> /\ C19_Missing(Head(queue))) =>
        LET r == onLog(proj, account, Null, Head(queue)) IN
        /\ r.console # <<>>
        /\ r.state.address = ""

\* --------------------------------------------------------------------- C20
\* C20: once the cancellation function of a subscription has returned, the
\* subscriber's callback is not invoked again, whatever the interleaving of
\* timer ticks, provider answers and the cancellation.
C20_Cancelled ==
    \A k \in Kinds :
        poll[k].timer = "cleared" =>
            /\ poll'[k].calls = poll[k].calls
            /\ poll'[k].last = poll[k].last
C20_NoCallbackAfterCancel == [][C20_Cancelled]_vars

\* -------------------------------------------------------------------- C21
\* the page has been reloaded: the Web3 context and the projection are
\* those of a fresh page and no subscription of the old page is left
Reloaded ==
    /\ web3' = Null
    /\ account' = ""
    /\ netId' = 0
    /\ poll' = NoPoll
    /\ proj' = INITIAL_STATE
    /\ queue' = <<>>

\* the account of the provider is not the one in the Web3 state; having no
\* account is being different from any connected account
AccountDiffers ==
    IF firstAccount = Undefined THEN account # "" ELSE firstAccount # account

C21_Step ==
    /\ (Answer("account") /\ AccountDiffers) => Reloaded
    /\ (Answer("netId") /\ netId # 0 /\ provider.netId # netId) => Reloaded

\* C21: when the account of the provider differs from the account in the
\* Web3 state (the change from a connected account to no account included),
\* the account poll that is answered next reloads the page, and an answered
\* network-id poll whose id differs from a recorded non-zero id reloads it;
\* nothing of the old page, its projection included, survives the step.
C21_ChangeForcesReload == [][C21_Step]_vars

\* -------------------------------------------------------------------- C27
C27_Step ==
    \A k \in Kinds :
        Fail(k) => /\ account' = account
                   /\ web3' = web3
                   /\ netId' = netId
                   /\ console' = <<"error">>
                   /\ ~Reloaded

\* C27: a failed account poll or network-id poll is only logged: the step in
\* which the Updater's callback gets the error leaves account, web3 and
\* netId of the Web3 state as they are and does not reload the page.
C27_ErrorOnlyLogged == [][C27_Step]_vars

\* -------------------------------------------------------------------- C22
\* both contexts have folded the same number of the logs they were given
InStep == Len(twin.queue) = Len(queue)

C23_Extends(b, a) ==
    /\ Len(a) >= Len(b)
    /\ \A k \in 1..Len(b) : /\ a[k].to = b[k].to
                            /\ a[k].value = b[k].value
                            /\ a[k].data = b[k].data

\* list a has the length of b and differs from it at most in the record i
C23_Only(b, a, i) ==
    /\ Len(a) = Len(b)
    /\ \A k \in 1..Len(b) : k # i + 1 => a[k] = b[k]

\* the list as the last completed top-level call left it
C23_Base == IF InCall THEN stack[1].saved.transactions ELSE transactions

\* what a step does to the list: an execute that calls out touches its own
\* record; a call that completes touches the record its event names, or adds
\* the record its SubmitTransaction event names and no other; a rejected
\* call and a deposit touch none; a failed external call restores the list
\* the execute started from
C23_Step ==
    /\ Called => C23_Only(transactions, transactions', stack'[Len(stack')].txIndex)
    /\ (Returned /\ ret' = OK) => transactions' = transactions
    /\ (Returned /\ ret' # OK) => transactions' = Top.saved.transactions
    /\ (~Called /\ ~Returned /\ ret' # OK) => transactions' = transactions
    /\ (~Called /\ ~Returned /\ ret' = OK) =>
          LET e == logs'[Len(logs')] IN
          IF e.event = "Deposit" THEN transactions' = transactions
          ELSE IF e.event = "SubmitTransaction"
          THEN /\ e.txIndex = Len(transactions)
               /\ Len(transactions') = Len(transactions) + 1
               /\ SubSeq(transactions', 1, Len(transactions)) = transactions
          ELSE C23_Only(transactions, transactions', e.txIndex)
    /\ ~(Returned /\ ret' # OK) => C23_Extends(transactions, transactions')
    /\ stack' = <<>> => C23_Extends(C23_Base, transactions')

\* C23 (as amended): across completed top-level calls the transaction list
\* is append-only: the count never decreases, no record is removed or moved
\* and to, value, data of a record never change; confirm, revoke and execute
\* on index i, a deposit and a submit leave every record other than the one
\* they target or create unchanged; the one step that shortens the list is
\* the revert of an executeTransaction whose external call failed, which
\* restores the list the call started from.
C23_AppendOnly == [][C23_Step]_vars

\* C23 witness: with two records in the list, the confirmation and the
\* execution of the first have left the second as it was submitted
C23_Witness ==
    /\ ~InCall
    /\ Len(transactions) = 2
    /\ Tx(0).executed
    /\ \E p \in SubmitInputs : Tx(1) = newTransaction(p.to, p.value, p.data)

\* C23 as stated: no step shortens the list or changes to, value, data
C23_Original == [][C23_Extends(transactions, transactions')]_vars

\* -------------------------------------------------------------------- C24
\* In the runs of one fold the second context never folds: it keeps the
\* content the fold started from and the log that was folded.
Before == twin.state
FoldedLog == Head(twin.queue)
\* the one log has been folded, and it was a log of event ev
FoldedOne(ev) == queue = <<>> /\ twin.queue # <<>> /\ FoldedLog.event = ev

\* C24: after the fold of a SubmitTransaction log the list is the list before
\* with one record in front, whose txIndex is the number the log's txIndex
\* spells, with numConfirmations = 0, executed = false and
\* isConfirmedByCurrentAccount = false; transactionCount is one more; the
\* records before, balance, owners and numConfirmationsRequired are as before.
C24_SubmitPrepends ==
    FoldedOne("SubmitTransaction") =>
        /\ Len(proj.transactions) = Len(Before.transactions) + 1
        /\ \E i \in TxIndices :
              /\ FoldedLog.returnValues.txIndex = toDecimal(i)
              /\ proj.transactions[1].txIndex = i
        /\ proj.transactions[1].numConfirmations = 0
        /\ proj.transactions[1].executed = FALSE
        /\ proj.transactions[1].isConfirmedByCurrentAccount = FALSE
        /\ Tail(proj.transactions) = Before.transactions
        /\ proj.transactionCount = Before.transactionCount + 1
        /\ proj.balance = Before.balance
        /\ proj.owners = Before.owners
        /\ proj.numConfirmationsRequired = Before.numConfirmationsRequired

\* C24 witness: a SubmitTransaction log was folded into a list of two records
C24_Witness ==
    /\ FoldedOne("SubmitTransaction")
    /\ Len(Before.transactions) = 2
    /\ Before.transactions[1].isConfirmedByCurrentAccount
    /\ Before.balance = "1"
    /\ Len(proj.transactions) = 3

\* -------------------------------------------------------------------- C25
\* C25: after the fold of an ExecuteTransaction log for txIndex i the context
\* is the one before but for executed = true on the record with txIndex i:
\* that record's numConfirmations and isConfirmedByCurrentAccount, the other
\* records, balance and transactionCount are as before.
C25_ExecuteSetsFlag ==
    FoldedOne("ExecuteTransaction") =>
        \E i \in TxIndices :
           /\ FoldedLog.returnValues.txIndex = toDecimal(i)
           /\ proj = [Before EXCEPT !.transactions =
                        [k \in 1..Len(@) |->
                            IF @[k].txIndex = i
                            THEN [@[k] EXCEPT !.executed = TRUE] ELSE @[k]]]

\* C25 witness: the log named a record that was not executed, had a
\* confirmation and the viewer's flag, next to another record
C25_Witness ==
    /\ FoldedOne("ExecuteTransaction")
    /\ Len(Before.transactions) = 2
    /\ \E k \in 1..2 :
          /\ toDecimal(Before.transactions[k].txIndex) = FoldedLog.returnValues.txIndex
          /\ ~Before.transactions[k].executed
          /\ Before.transactions[k].numConfirmations = 1
          /\ Before.transactions[k].isConfirmedByCurrentAccount
          /\ proj.transactions[k].executed

\* -------------------------------------------------------------------- C26
\* The first context has folded both logs, the second none: it keeps the
\* content the folds started from and the two logs.  The same log of event
\* ev was delivered twice.
C26_Twice(ev) ==
    /\ queue = <<>>
    /\ Len(twin.queue) = 2
    /\ twin.queue[1] = twin.queue[2]
    /\ twin.queue[1].event = ev

\* the records of the first context against those it started from, when the
\* duplicated log names a record: numConfirmations differs by d
C26_Shifted(d) ==
    /\ Len(proj.transactions) = Len(Before.transactions)
    /\ \A k \in 1..Len(proj.transactions) :
          proj.transactions[k].numConfirmations =
             IF toDecimal(Before.transactions[k].txIndex)
                   = twin.queue[1].returnValues.txIndex
             THEN Before.transactions[k].numConfirmations + d
             ELSE Before.transactions[k].numConfirmations

\* C26: the fold is not idempotent under duplicate delivery: the same
\* ConfirmTransaction log folded twice raises numConfirmations of its record
\* by 2, the same RevokeConfirmation log folded twice lowers it by 2, below 0
\* when it was under 2, and the same SubmitTransaction log folded twice
\* leaves two records with the same txIndex in front of the list.
C26_NotIdempotent ==
    /\ C26_Twice("ConfirmTransaction") => C26_Shifted(2)
    /\ C26_Twice("RevokeConfirmation") => C26_Shifted(-2)
    /\ C26_Twice("SubmitTransaction") =>
          /\ Len(proj.transactions) = Len(Before.transactions) + 2
          /\ proj.transactionCount = Before.transactionCount + 2
          /\ proj.transactions[1] = proj.transactions[2]
          /\ toDecimal(proj.transactions[1].txIndex)
                = twin.queue[1].returnValues.txIndex

\* C26 witness: a RevokeConfirmation log delivered twice has driven the
\* numConfirmations of its record below 0
C26_Witness ==
    /\ C26_Twice("RevokeConfirmation")
    /\ Len(proj.transactions) = 1
    /\ Before.transactions[1].numConfirmations = 1
    /\ proj.transactions[1].numConfirmations = -1

\* with the logs of the wallet delivered in order and once each, the
\* numConfirmations of every record of the context is within 0..number of owners
C26_InOrderBounded ==
    Subscribed =>
        \A k \in 1..Len(proj.transactions) :
            proj.transactions[k].numConfirmations \in 0..Len(owners)

\* -------------------------------------------------------------------- C28
\* C28: in every reachable state, a call in progress included, every
\* transaction with executed = true has numConfirmations >=
\* numConfirmationsRequired, and at least that many owners hold a
\* confirmation of it that they have not revoked.
C28_ExecutedHasThreshold ==
    \A i \in TxIndices : (Exists(i) /\ Tx(i).executed) =>
        /\ Tx(i).numConfirmations >= numConfirmationsRequired
        /\ Cardinality(Confirmers(Tx(i)) \cap Owners) >= numConfirmationsRequired

\* C28 witness: a transaction executed with exactly the two confirmations
\* required, after which a revocation of one of them was rejected
C28_Witness ==
    /\ ~InCall
    /\ numConfirmationsRequired = 2
    /\ ret = "tx already executed"
    /\ \E i \in TxIndices :
          Exists(i) /\ Tx(i).executed /\ Tx(i).numConfirmations = 2

\* -------------------------------------------------------------------- C29
\* C29: in every reachable state every address recorded as having confirmed
\* a transaction is an owner, and numConfirmations of every transaction is
\* between 0 and the number of owners.
C29_ConfirmersAreOwners ==
    \A i \in TxIndices : Exists(i) =>
        /\ Confirmers(Tx(i)) \subseteq Owners
        /\ Tx(i).numConfirmations >= 0
        /\ Tx(i).numConfirmations <= Len(owners)

\* C29 witness: every owner has confirmed a transaction and an address that
\* is not an owner was turned away
C29_Witness ==
    /\ ret = "not owner"
    /\ \E i \in TxIndices :
          Exists(i) /\ Tx(i).numConfirmations = Len(owners)
                    /\ Confirmers(Tx(i)) = Owners

\* -------------------------------------------------------------------- C30
\* the reason of highest priority among the preconditions that fail:
\* unauthorized, not found, already executed, then the operation's own
C30_First(sender, i, own, reason) ==
    IF ~isOwner[sender] THEN "not owner"
    ELSE IF ~Exists(i) THEN "tx does not exist"
    ELSE IF Tx(i).executed THEN "tx already executed"
    ELSE IF own THEN reason
    ELSE OK

\* the preconditions of the three operations that fail for sender and i
C30_Fails(sender, i) ==
    [unauthorized |-> ~isOwner[sender],
     notFound |-> ~Exists(i),
     executed |-> Exists(i) /\ Tx(i).executed,
     confirmed |-> Exists(i) /\ Tx(i).isConfirmed[sender],
     unconfirmed |-> Exists(i) /\ ~Tx(i).isConfirmed[sender],
     insufficient |-> Exists(i) /\ Tx(i).numConfirmations < numConfirmationsRequired]

\* C30: whatever preconditions fail together, confirmTransaction,
\* revokeConfirmation and executeTransaction report the first that fails in
\* the order: not owner, tx does not exist, tx already executed, then tx
\* already confirmed / tx not confirmed / cannot execute tx; and they change
\* nothing.
C30_ErrorPriority ==
    \A s \in AnyAddress, i \in TxIndices :
        LET f == C30_Fails(s, i) IN
        /\ confirmTransaction(Entry, s, i).err =
              C30_First(s, i, f.confirmed, "tx already confirmed")
        /\ revokeConfirmation(Entry, s, i).err =
              C30_First(s, i, f.unconfirmed, "tx not confirmed")
        /\ LET e == C30_First(s, i, f.insufficient, "cannot execute tx") IN
           IF e # OK THEN executeReject(Entry, s, i) = e
           ELSE executeReject(Entry, s, i) \in {OK, "tx failed"}
        /\ confirmTransaction(Entry, s, i).err # OK =>
              confirmTransaction(Entry, s, i).w = Entry
        /\ revokeConfirmation(Entry, s, i).err # OK =>
              revokeConfirmation(Entry, s, i).w = Entry

\* C30 witness: an owner's call on an executed transaction that the owner
\* had confirmed was answered with tx already executed
C30_Witness ==
    /\ ret = "tx already executed"
    /\ \E s \in Owners, i \in TxIndices :
          /\ Exists(i) /\ Tx(i).executed /\ Tx(i).isConfirmed[s]
          /\ confirmTransaction(Entry, s, i).err = "tx already executed"
    /\ \E s \in Address \ Owners, i \in TxIndices :
          ~Exists(i) /\ confirmTransaction(Entry, s, i).err = "not owner"

\* -------------------------------------------------------------------- C31
\* a step in which a withdraw made its external call, and the call it was
WithdrawCalled == Len(withdrawing') = Len(withdrawing) + 1
Withdrawal == withdrawing'[Len(withdrawing')]
\* a step in which a withdraw was turned away at its first require
WithdrawRefused == withdrawing' = withdrawing /\ answer' = "Wrong Password!"
\* a step in which the external call of a withdraw failed
WithdrawFailed ==
    Len(withdrawing') = Len(withdrawing) - 1 /\ answer' = "Failed to send Ether"

\* withdraw(_user, _secret) is let through only with the secret that _user
\* stored through deposit, and then sends the whole balance
C31_OnlyWithStoredSecret ==
    WithdrawCalled =>
        /\ Withdrawal._user \in depositors
        /\ Withdrawal._secret = addressToSecret[Withdrawal._user]
        /\ frontRunBalance' = 0

\* a withdraw that names a _user that has never called deposit is refused
\* with 'Wrong Password!', whatever its _secret: none is let through
C31_StrangerRefused ==
    \A u \in Address \ depositors :
        /\ ~(WithdrawCalled /\ Withdrawal._user = u)
        /\ \A k \in Secrets :
              withdrawReject(Vault, u, k) # OK =>
                 withdrawReject(Vault, u, k) = "Wrong Password!"

\* a reverted withdraw leaves the balance and the secrets as they were when
\* it was called
C31_RevertRestores ==
    /\ WithdrawRefused =>
          /\ frontRunBalance' = frontRunBalance
          /\ addressToSecret' = addressToSecret
    /\ WithdrawFailed =>
          LET f == withdrawing[Len(withdrawing)] IN
          /\ frontRunBalance' = f.saved.balance
          /\ addressToSecret' = f.saved.addressToSecret

\* C31: withdraw(_user, _secret) sends the whole balance to its caller only
\* when _secret is a secret that _user stored through deposit; for a _user
\* that has never called deposit it reverts with 'Wrong Password!' whatever
\* _secret is; a reverted withdraw leaves the balance and all stored secrets
\* unchanged.
C31_WithdrawNeedsSecret ==
    [][C31_OnlyWithStoredSecret /\ C31_StrangerRefused /\ C31_RevertRestores]_vars

====
